---- MODULE Spec2Model ----
(***************************************************************************)
(* Report execution, snapshot capture/restore and the time-series loader   *)
(* of evidently (src/evidently/report/report.py,                           *)
(* src/evidently/experimental/monitors.py).                                *)
(*                                                                         *)
(* The Suite, the Context and the Snapshot container live in               *)
(* evidently.suite.base_suite, which is not part of the sources at hand;   *)
(* their definitions below follow the written specification (sections 3,   *)
(* 4.2 and 4.4).                                                           *)
(***************************************************************************)
EXTENDS Integers, Sequences, FiniteSets, TLC

(* ---------------------------------------------------------------- bounds *)

\* longest configured list Report(metrics=[...]) that is explored
MaxItems == 2

\* number of calls on one Report (Report.run, the metadata setters and
\* _get_snapshot) that are explored; one more _get_snapshot may follow the
\* last of them
MaxRuns == 2

\* number of snapshot files at a storage path
MaxFiles == 3

\* timestamps run from 1 to MaxTime
MaxTime == 3
MaxIds == 2
MaxIndex == 3

(* ------------------------------------------------------------ the domain *)

\* Metric instances; a unit is identified by its type and arguments, so a
\* name stands for one identity.
Metrics == {"A", "B", "C", "D"}

\* A computational unit that is not a Metric (a Test).
NonMetrics == {"T"}

Elements == Metrics \cup NonMetrics

\* isinstance(metric, Metric)
IsMetric(e) == e \in Metrics

\* Internal dependencies of a unit: A and B both use D.
Deps(u) == IF u \in {"A", "B"} THEN <<"D">> ELSE <<>>

\* current_data values: None, or one of two datasets with different columns
NoData == "None"
Datasets == {"d1", "d2"}

\* process_columns(current_data, column_mapping): the column description
process_columns(cur) == cur

GeneratorNames == {"GenCols", "GenBad"}

\* BaseGenerator.generate(columns_info): GenCols emits one unit list per
\* column description, GenBad emits a list whose second element is no Metric.
generate(g, cols) ==
    IF g = "GenCols"
    THEN (IF cols = "d1" THEN <<"A", "B">> ELSE <<"C">>)
    ELSE <<"C", "T">>

PresetNames == {"PresetBC", "PresetNested", "PresetTest"}

Unit(u) == [kind |-> "metric", name |-> u]
Gen(g) == [kind |-> "generator", name |-> g]
Preset(p) == [kind |-> "preset", name |-> p]
Other == [kind |-> "other", name |-> "object"]

\* MetricPreset.generate_metrics(data, columns): units and nested generators
generate_metrics(p, cols) ==
    CASE p = "PresetBC" -> <<Unit("B"), Unit("C")>>
      [] p = "PresetNested" -> <<Unit("D"), Gen("GenCols")>>
      [] OTHER -> <<Unit("T"), Gen("GenBad")>>

\* what a Report may be configured with
Items ==
    {Unit(u) : u \in {"A", "B", "D"}}
        \cup {Gen(g) : g \in GeneratorNames}
        \cup {Preset(p) : p \in PresetNames}
        \cup {Other}

Configs == UNION {[1..n -> Items] : n \in 0..MaxItems}

Range(s) == {s[i] : i \in 1..Len(s)}

\* MetricResult of unit u computed on dataset d
Result(u, d) == <<u, d>>

NoResult == <<>>

(* ------------------------------------------------------------- the state *)

VARIABLES
    metrics,        \* Report.metrics: the configured list
    first_level,    \* Report._first_level_metrics
    metadata,       \* Report.metadata
    suite_metrics,  \* Report._inner_suite.context.metrics
    metric_results, \* Report._inner_suite.context.metric_results
    suite_state,    \* state of the Suite
    pc,             \* position of Report.run
    idx,            \* loop index of the running loop
    arg,            \* argument of the last call on the Report: current_data of
                    \* Report.run, the value given to a setter, NoArgs for
                    \* _get_snapshot
    data,           \* current_data of the last run that passed the input check
    before,         \* the Report as the last run that passed the check found it
    calls,          \* number of calls on the Report so far
    run_no,         \* number of runs that passed the input check
    last_error,     \* outcome of the last operation
    computed,       \* compute invocations per unit in the current run
    registered,     \* add_metric calls of the current run, in order
    snapshot,       \* the last Snapshot captured
    restored,       \* the last Report restored from a Snapshot
    header,         \* Report.id, Report.timestamp, Report.tags
    store,          \* the snapshot files at the storage path, as os.listdir lists them
    query,          \* date_from and date_to of the last load
    loaded,         \* what the last load_time_series_data returned
    series,         \* what load_metric_time_series returned, if the last load was one
    panel,          \* the last panel aggregation: snapshots, filter, snapshots kept
    workspace,      \* app.state.workspace: the projects by id
    response,       \* the last API request and its answer
    bound,          \* for each entry of _first_level_metrics: the configured item
                    \* the object is (0 for an object a generator or preset made)
                    \* and the run whose Context the object is bound to
    contexts,       \* metric_results of the Contexts of the earlier runs, by
                    \* the number of the run
    build           \* what the classes outside this source do where builds
                    \* differ: whether Suite.reset empties the Context in
                    \* place or replaces it, and whether Workspace.add_project
                    \* keeps the snapshots stored under the project's id

vars == <<metrics, first_level, metadata, suite_metrics, metric_results,
          suite_state, pc, idx, arg, data, before, calls, run_no, last_error, computed,
          registered, snapshot, restored, header, store, query, loaded,
                   series, panel, workspace, response,
                   bound, contexts, build>>

METRIC_GENERATORS == "metric_generators"
METRIC_PRESETS == "metric_presets"

NoSnapshot == [ok |-> FALSE]
NoReport == [ok |-> FALSE]
NoCall == [called |-> FALSE]

\* the argument list of a call without arguments
NoArgs == "()"

\* the id, timestamp, tags, model_id, reference_id, batch_size and dataset_id
\* a Report is constructed with; "None" is an argument left out
Headers ==
    {[id |-> "r1", timestamp |-> 1, tags |-> <<>>, model_id |-> "None",
      reference_id |-> "None", batch_size |-> "None", dataset_id |-> "None"],
     [id |-> "r2", timestamp |-> 2, tags |-> <<"prod">>, model_id |-> "m1",
      reference_id |-> "ref1", batch_size |-> "daily", dataset_id |-> "adult"],
     [id |-> "r3", timestamp |-> 1, tags |-> <<>>, model_id |-> "None",
      reference_id |-> "None", batch_size |-> "None", dataset_id |-> "adult"]}

\* self.metadata[key] = value
setitem(md, key, value) ==
    [k \in DOMAIN md \cup {key} |-> IF k = key THEN value ELSE md[k]]

\* Report.set_batch_size, set_model_id, set_reference_id, set_dataset_id
set_batch_size(md, batch_size) == setitem(md, "batch_size", batch_size)

set_model_id(md, model_id) == setitem(md, "model_id", model_id)

set_reference_id(md, reference_id) == setitem(md, "reference_id", reference_id)

set_dataset_id(md, dataset_id) == setitem(md, "dataset_id", dataset_id)

\* lines 59 and 61-68: the metadata given, then the setter of each argument
\* that is given, in the order model_id, batch_size, reference_id, dataset_id
initial_metadata(md, h) ==
    LET m1 == IF h.model_id # "None" THEN set_model_id(md, h.model_id) ELSE md
        m2 == IF h.batch_size # "None" THEN set_batch_size(m1, h.batch_size) ELSE m1
        m3 == IF h.reference_id # "None"
              THEN set_reference_id(m2, h.reference_id) ELSE m2
    IN IF h.dataset_id # "None" THEN set_dataset_id(m3, h.dataset_id) ELSE m3

\* the values the setters are called with
BatchSizes == {"daily", "weekly"}
ModelIds == {"m1"}
ReferenceIds == {"ref1"}
DatasetIds == {"adult"}

Timestamps == 1..MaxTime

\* an optional datetime: <<>> is None, <<t>> is the datetime t
OptionalDates == {<<>>} \cup {<<t>> : t \in Timestamps}

\* the Reports found at a storage path: file i holds the Report with id i
Stores ==
    UNION {[1..n -> [id : 1..n, timestamp : Timestamps]] : n \in 0..MaxFiles}

\* Report.__init__
\* the builds explored: Suite and Workspace are not part of this source
Builds == [reset_in_place : BOOLEAN, add_project_keeps : BOOLEAN]

\* a build whose Suite.reset replaces the Context and whose
\* Workspace.add_project stores the project as given
PlainBuild == [reset_in_place |-> FALSE, add_project_keeps |-> FALSE]

\* the Context of a Suite that has not run
EmptyContext == [u \in {} |-> NoResult]

\* the Contexts of the earlier runs once the Suite's Context holds mr: where
\* reset empties the Context in place they are all that one object
held(ctxs, mr) ==
    IF build.reset_in_place THEN [k \in 1..Len(ctxs) |-> mr] ELSE ctxs

\* Suite.reset before run number run + 1, seen from the objects of the earlier
\* runs: a replaced Context keeps its Results mr, a Context emptied in place
\* is empty for every object bound to it
reset(ctxs, mr, run) ==
    IF run = 0 THEN ctxs
    ELSE IF build.reset_in_place THEN [k \in 1..run |-> EmptyContext]
    ELSE Append(ctxs, mr)

Init ==
    /\ build \in {b \in Builds : ~b.add_project_keeps}
    /\ metrics \in Configs
    /\ first_level = <<>>
    /\ header \in Headers
    /\ metadata = initial_metadata([type |-> "data_quality"], header)
    /\ suite_metrics = <<>>
    /\ metric_results = [u \in {} |-> NoResult]
    /\ suite_state = "UNINITIALIZED"
    /\ pc = "idle"
    /\ idx = 0
    /\ arg = NoData
    /\ data = NoData
    /\ before = [complete |-> FALSE, data |-> NoData, first_level |-> <<>>]
    /\ calls = 0
    /\ run_no = 0
    /\ last_error = "none"
    /\ computed = [u \in Elements |-> 0]
    /\ registered = <<>>
    /\ snapshot = NoSnapshot
    /\ restored = NoReport
    /\ store = <<>>
    /\ query = [called |-> FALSE, date_from |-> <<>>, date_to |-> <<>>]
    /\ loaded = <<>>
    /\ series = NoCall
    /\ panel = NoCall
    /\ workspace = <<>>
    /\ response = NoCall
    /\ bound = <<>>
    /\ contexts = <<>>

(* ------------------------------------------------------------- the Suite *)

RECURSIVE add_metric(_, _)
RECURSIVE add_metrics(_, _)

\* Suite.add_metric: the dependencies first, then the unit, each at most once
add_metric(suite, m) ==
    LET withDeps == add_metrics(suite, Deps(m))
    IN IF m \in Range(withDeps) THEN withDeps ELSE Append(withDeps, m)

add_metrics(suite, ms) ==
    IF ms = <<>> THEN suite
    ELSE add_metrics(add_metric(suite, Head(ms)), Tail(ms))

Idle == pc \in {"idle", "done", "failed"}

(* ------------------------------------------------------------ Report.run *)

\* RunNoData with the input check placed after Suite.reset and Suite.verify
RunNoDataAfterReset ==
    /\ Idle
    /\ calls < MaxRuns
    /\ calls' = calls + 1
    /\ arg' = NoData
    /\ last_error' = "ValueError"
    /\ suite_metrics' = <<>>
    /\ metric_results' = [u \in {} |-> NoResult]
    /\ contexts' = held(contexts, metric_results')
    /\ suite_state' = "VERIFIED"
    /\ UNCHANGED <<metrics, first_level, metadata, pc, idx, data, before,
                   run_no, computed, registered, snapshot, restored, header, store, query, loaded,
                   series, panel, workspace, response,
                   bound, build>>

\* run() with current_data None, lines 77-81
RunNoData ==
    /\ Idle
    /\ calls < MaxRuns
    /\ calls' = calls + 1
    /\ arg' = NoData
    /\ last_error' = "ValueError"
    /\ UNCHANGED <<metrics, first_level, metadata, suite_metrics,
                   metric_results, suite_state, pc, idx, data, before, run_no,
                   computed, registered, snapshot, restored, header, store, query, loaded,
                   series, panel, workspace, response,
                   bound, contexts, build>>

\* RunBegin without the call of Suite.reset
RunBeginNoReset(cur) ==
    /\ Idle
    /\ calls < MaxRuns
    /\ calls' = calls + 1
    /\ run_no' = run_no + 1
    /\ arg' = cur
    /\ data' = cur
    /\ before' = [complete |-> pc = "done", data |-> data,
                  first_level |-> first_level]
    /\ suite_state' = "VERIFIED"
    /\ pc' = "expand"
    /\ idx' = 1
    /\ last_error' = "none"
    /\ computed' = [u \in Elements |-> 0]
    /\ registered' = <<>>
    /\ contexts' = reset(contexts, metric_results, run_no)
    /\ UNCHANGED <<metrics, first_level, metadata, suite_metrics,
                   metric_results, snapshot, restored, header, store, query, loaded,
                   series, panel, workspace, response,
                   bound, build>>

\* run() up to the loop, lines 77-88: process_columns, Suite.reset, Suite.verify;
\* the Suite starts the run with an empty Context, and the objects of earlier
\* runs stay bound to the Context of their run
RunBegin(cur) ==
    /\ Idle
    /\ calls < MaxRuns
    /\ calls' = calls + 1
    /\ run_no' = run_no + 1
    /\ arg' = cur
    /\ data' = cur
    /\ before' = [complete |-> pc = "done", data |-> data,
                  first_level |-> first_level]
    /\ suite_metrics' = <<>>
    /\ metric_results' = [u \in {} |-> NoResult]
    /\ suite_state' = "VERIFIED"
    /\ pc' = "expand"
    /\ idx' = 1
    /\ last_error' = "none"
    /\ computed' = [u \in Elements |-> 0]
    /\ registered' = <<>>
    /\ contexts' = reset(contexts, metric_results, run_no)
    /\ UNCHANGED <<metrics, first_level, metadata, snapshot, restored, header, store, query, loaded,
                   series, panel, workspace, response,
                   bound, build>>

\* metric.set_context(context), called by Suite.add_metric: every entry of the
\* first-level list that is this object is bound to the Context of the run; an
\* object a generator or preset has just made is nowhere in the list yet
set_context(bd, item, run) ==
    [k \in 1..Len(bd) |->
        IF item # 0 /\ bd[k].item = item THEN [bd[k] EXCEPT !.ctx = run] ELSE bd[k]]

\* Register putting the unit in front of the first-level list
RegisterInFront(st, m) ==
    [st EXCEPT !.first_level = <<m>> \o @,
               !.suite = add_metric(@, m),
               !.registered = Append(@, m),
               !.bound = <<[item |-> st.item, ctx |-> st.run]>>
                            \o set_context(@, st.item, st.run)]

\* one registration: lines 97-98, 117-118, 125-126
Register(st, m) ==
    [st EXCEPT !.first_level = Append(@, m),
               !.suite = add_metric(@, m),
               !.registered = Append(@, m),
               !.bound = Append(set_context(@, st.item, st.run),
                                [item |-> st.item, ctx |-> st.run])]

RECURSIVE GeneratorLoop(_, _)

\* the loop over item.generate(...) of the generator branch, lines 95-102:
\* a Metric is registered, anything else raises ValueError
GeneratorLoop(st, emitted) ==
    IF emitted = <<>> THEN st
    ELSE IF IsMetric(Head(emitted))
         THEN GeneratorLoop(Register(st, Head(emitted)), Tail(emitted))
         ELSE [st EXCEPT !.ok = FALSE]

RECURSIVE PresetMetrics(_, _)

\* the first loop of the preset branch, lines 107-114: a nested generator is
\* replaced in place by what it generates, anything else is taken as it is
PresetMetrics(emitted, cols) ==
    IF emitted = <<>> THEN <<>>
    ELSE LET item == Head(emitted)
         IN (IF item.kind = "generator"
             THEN generate(item.name, cols)
             ELSE <<item.name>>) \o PresetMetrics(Tail(emitted), cols)

RECURSIVE PresetLoop(_, _)

\* the second loop of the preset branch, lines 116-118
PresetLoop(st, ms) ==
    IF ms = <<>> THEN st
    ELSE PresetLoop(Register(st, Head(ms)), Tail(ms))

\* AppendProvenance starting the list anew at every item
RestartProvenance(md, key, name) ==
    [k \in DOMAIN md \cup {key} |-> IF k = key THEN <<name>> ELSE md[k]]

\* lines 103-105 and 120-122: the provenance list of a kind
AppendProvenance(md, key, name) ==
    IF key \in DOMAIN md
    THEN [md EXCEPT ![key] = Append(@, name)]
    ELSE md @@ (key :> <<name>>)

\* the lists as a pass of the loop finds them; item is 0 while the objects
\* registered are made by a generator or preset
LoopState ==
    [first_level |-> first_level, suite |-> suite_metrics,
     registered |-> registered, bound |-> bound, item |-> 0, run |-> run_no,
     ok |-> TRUE]

Expanding == pc = "expand" /\ idx <= Len(metrics)

\* what one pass of the loop body leaves behind
Expanded(st, md) ==
    /\ first_level' = st.first_level
    /\ suite_metrics' = st.suite
    /\ registered' = st.registered
    /\ bound' = st.bound
    /\ metadata' = (IF st.ok THEN md ELSE metadata)
    /\ pc' = (IF st.ok THEN "expand" ELSE "failed")
    /\ idx' = (IF st.ok THEN idx + 1 ELSE idx)
    /\ last_error' = (IF st.ok THEN "none" ELSE "ValueError")
    /\ UNCHANGED <<metrics, metric_results, suite_state, arg, data, before, calls,
                   run_no,
                   computed, snapshot, restored, header, store, query, loaded,
                   series, panel, workspace, response,
                   contexts, build>>

\* the generator branch, lines 94-105
ExpandGenerator ==
    /\ Expanding
    /\ metrics[idx].kind = "generator"
    /\ Expanded(GeneratorLoop(LoopState,
                              generate(metrics[idx].name, process_columns(data))),
                AppendProvenance(metadata, METRIC_GENERATORS, metrics[idx].name))

\* the preset branch, lines 106-122
ExpandPreset ==
    /\ Expanding
    /\ metrics[idx].kind = "preset"
    /\ Expanded(PresetLoop(LoopState,
                           PresetMetrics(generate_metrics(metrics[idx].name,
                                                          process_columns(data)),
                                         process_columns(data))),
                AppendProvenance(metadata, METRIC_PRESETS, metrics[idx].name))

\* the bare Metric branch, lines 124-126: the configured object itself is
\* registered, the same one in every run
ExpandMetric ==
    /\ Expanding
    /\ metrics[idx].kind = "metric"
    /\ Expanded(Register([LoopState EXCEPT !.item = idx], metrics[idx].name),
                metadata)

\* the else branch, lines 128-129
ExpandOther ==
    /\ Expanding
    /\ metrics[idx].kind = "other"
    /\ Expanded([LoopState EXCEPT !.ok = FALSE], metadata)

\* CreateAdditionalFeatures taken at any point of the loop
CreateAdditionalFeaturesEarly ==
    /\ pc = "expand"
    /\ pc' = "calculate"
    /\ idx' = 1
    /\ suite_state' = "RUNNING"
    /\ UNCHANGED <<metrics, first_level, metadata, suite_metrics,
                   metric_results, arg, data, before, calls, run_no, last_error,
                   computed,
                   registered, snapshot, restored, header, store, query, loaded,
                   series, panel, workspace, response,
                   bound, contexts, build>>

\* lines 131-140: the second input-preparation pass, after the loop
CreateAdditionalFeatures ==
    /\ pc = "expand"
    /\ idx > Len(metrics)
    /\ pc' = "calculate"
    /\ idx' = 1
    /\ suite_state' = "RUNNING"
    /\ UNCHANGED <<metrics, first_level, metadata, suite_metrics,
                   metric_results, arg, data, before, calls, run_no, last_error,
                   computed,
                   registered, snapshot, restored, header, store, query, loaded,
                   series, panel, workspace, response,
                   bound, contexts, build>>

\* Suite.run_calculate, one unit: a unit the Context holds is not computed
Calculate ==
    /\ pc = "calculate"
    /\ idx <= Len(suite_metrics)
    /\ LET u == suite_metrics[idx]
       IN IF u \in DOMAIN metric_results
          THEN UNCHANGED <<metric_results, computed>>
          ELSE /\ metric_results' = metric_results @@ (u :> Result(u, data))
               /\ computed' = [computed EXCEPT ![u] = @ + 1]
    /\ idx' = idx + 1
    /\ contexts' = held(contexts, metric_results')
    /\ UNCHANGED <<metrics, first_level, metadata, suite_metrics, suite_state,
                   pc, arg, data, before, calls, run_no, last_error, registered,
                   snapshot,
                   restored, header, store, query, loaded,
                   series, panel, workspace, response,
                   bound, build>>

\* Suite.run_calculate returns, and with it Report.run
RunComplete ==
    /\ pc = "calculate"
    /\ idx > Len(suite_metrics)
    /\ pc' = "done"
    /\ suite_state' = "COMPLETE"
    /\ UNCHANGED <<metrics, first_level, metadata, suite_metrics,
                   metric_results, idx, arg, data, before, calls, run_no,
                   last_error,
                   computed, registered, snapshot, restored, header, store, query, loaded,
                   series, panel, workspace, response,
                   bound, contexts, build>>

(* -------------------------------------------------- capture and restore *)

\* list.index(m): the 0-based position of the first element equal to m
index(seq, m) ==
    (CHOOSE i \in 1..Len(seq) : seq[i] = m /\ \A j \in 1..(i - 1) : seq[j] # m) - 1

\* ReportBase._get_snapshot: the Suite's whole unit list with each unit's
\* Result, and the Report's id, timestamp, metadata and tags
base_snapshot ==
    [ok |-> TRUE,
     id |-> header.id,
     timestamp |-> header.timestamp,
     metadata |-> metadata,
     tags |-> header.tags,
     units |-> suite_metrics,
     results |-> [i \in 1..Len(suite_metrics) |->
                    IF suite_metrics[i] \in DOMAIN metric_results
                    THEN metric_results[suite_metrics[i]]
                    ELSE NoResult],
     metrics_ids |-> <<>>]

\* metrics_ids with positions counted from one
metrics_ids_from_one(units, fl) ==
    [k \in 1..Len(fl) |-> index(units, fl[k]) + 1]

\* line 240: the index of each first-level unit in the snapshot's unit list
metrics_ids(units, fl) == [k \in 1..Len(fl) |-> index(units, fl[k])]

\* Report._get_snapshot, lines 238-241; list.index raises ValueError for a
\* first-level unit the snapshot's unit list does not hold
_get_snapshot ==
    IF \A k \in 1..Len(first_level) : first_level[k] \in Range(suite_metrics)
    THEN [base_snapshot EXCEPT
            !.metrics_ids = metrics_ids(base_snapshot.units, first_level)]
    ELSE NoSnapshot

\* ContextPayload.to_context: the unit list with the stored Results in place
to_context(s) ==
    [metrics |-> s.units,
     metric_results |->
        [u \in {s.units[i] : i \in {j \in 1..Len(s.units) : s.results[j] # NoResult}} |->
            s.results[CHOOSE i \in 1..Len(s.units) : s.units[i] = u]]]

\* list[i]: a list of n elements has the indices -n..n-1, a negative one
\* counting from the end; any other index raises IndexError
has_index(list, i) == -Len(list) <= i /\ i < Len(list)

getitem(list, i) == IF i >= 0 THEN list[i + 1] ELSE list[Len(list) + i + 1]

\* line 246: the first-level units, by the stored indices
deref(ctx, ids) == [k \in 1..Len(ids) |-> getitem(ctx.metrics, ids[k])]

\* Report._parse_snapshot, lines 243-257
_parse_snapshot(s) ==
    LET ctx == to_context(s)
        ms == deref(ctx, s.metrics_ids)
    IN IF \E k \in 1..Len(s.metrics_ids) : ~has_index(ctx.metrics, s.metrics_ids[k])
       THEN [ok |-> FALSE, error |-> "IndexError"]
       ELSE [ok |-> TRUE,
             metrics |-> ms,
             timestamp |-> s.timestamp,
             id |-> s.id,
             metadata |-> s.metadata,
             tags |-> s.tags,
             first_level |-> ms,
             suite_metrics |-> ctx.metrics,
             metric_results |-> ctx.metric_results]

\* Report.as_dict, lines 143-170: the first-level units in order, each with
\* the Result held by the Context its object is bound to (ctxs[k] for the
\* k-th); get_result fails for a unit without one
as_dict(fl, ctxs) ==
    IF \A k \in 1..Len(fl) : fl[k] \in DOMAIN ctxs[k]
    THEN [ok |-> TRUE,
          metrics |-> [k \in 1..Len(fl) |->
                          [metric |-> fl[k], result |-> ctxs[k][fl[k]]]]]
    ELSE [ok |-> FALSE, metrics |-> <<>>]

\* the metric_results of the Context of a run: the Suite's own for the
\* current run, that of the run's Context for an earlier run
context_of(run) == IF run = run_no THEN metric_results ELSE contexts[run]

\* the Contexts the objects of the first-level list are bound to
bound_contexts == [k \in 1..Len(bound) |-> context_of(bound[k].ctx)]

\* report._get_snapshot()
GetSnapshot ==
    /\ Idle
    /\ calls <= MaxRuns
    /\ calls' = calls + 1
    /\ arg' = NoArgs
    /\ snapshot' = (IF _get_snapshot.ok THEN _get_snapshot ELSE snapshot)
    /\ last_error' = (IF _get_snapshot.ok THEN "none" ELSE "ValueError")
    /\ UNCHANGED <<metrics, first_level, metadata, suite_metrics,
                   metric_results, suite_state, pc, idx, data, before,
                   run_no, computed, registered, restored, header, store, query, loaded,
                   series, panel, workspace, response,
                   bound, contexts, build>>

\* Report._parse_snapshot(snapshot): the Report it returns, or the exception
\* it raises and no Report
ParseSnapshot ==
    /\ Idle
    /\ snapshot.ok
    /\ restored' = (IF _parse_snapshot(snapshot).ok
                    THEN _parse_snapshot(snapshot) ELSE NoReport)
    /\ last_error' = (IF _parse_snapshot(snapshot).ok
                      THEN "none" ELSE _parse_snapshot(snapshot).error)
    /\ UNCHANGED <<metrics, first_level, metadata, suite_metrics,
                   metric_results, suite_state, pc, idx, arg, data, before,
                   calls,
                   run_no, computed, registered, snapshot, header, store, query, loaded,
                   series, panel, workspace, response,
                   bound, contexts, build>>

\* a setter called on the Report, between two other calls
Setter(md, value) ==
    /\ Idle
    /\ calls < MaxRuns
    /\ calls' = calls + 1
    /\ arg' = value
    /\ metadata' = md
    /\ last_error' = "none"
    /\ UNCHANGED <<metrics, first_level, suite_metrics, metric_results,
                   suite_state, pc, idx, data, before, run_no, computed,
                   registered, snapshot, restored, header, store, query, loaded,
                   series, panel, workspace, response, bound, contexts, build>>

SetBatchSize(batch_size) ==
    /\ batch_size \in BatchSizes
    /\ Setter(set_batch_size(metadata, batch_size), batch_size)

SetModelId(model_id) ==
    /\ model_id \in ModelIds
    /\ Setter(set_model_id(metadata, model_id), model_id)

SetReferenceId(reference_id) ==
    /\ reference_id \in ReferenceIds
    /\ Setter(set_reference_id(metadata, reference_id), reference_id)

SetDatasetId(dataset_id) ==
    /\ dataset_id \in DatasetIds
    /\ Setter(set_dataset_id(metadata, dataset_id), dataset_id)

Next ==
    \/ RunNoData
    \/ \E cur \in Datasets : RunBegin(cur)
    \/ ExpandGenerator
    \/ ExpandPreset
    \/ ExpandMetric
    \/ ExpandOther
    \/ CreateAdditionalFeatures
    \/ Calculate
    \/ RunComplete
    \/ GetSnapshot
    \/ ParseSnapshot
    \/ \E v \in BatchSizes : SetBatchSize(v)
    \/ \E v \in ModelIds : SetModelId(v)
    \/ \E v \in ReferenceIds : SetReferenceId(v)
    \/ \E v \in DatasetIds : SetDatasetId(v)

Spec == Init /\ [][Next]_vars

(* ------------------------------------------------- the time-series loader *)

\* lines 48-51 with < and > replaced by <= and >=
skipped_at_bounds(ts, date_from, date_to) ==
    \/ (date_from # <<>> /\ ts <= date_from[1])
    \/ (date_to # <<>> /\ ts >= date_to[1])

\* lines 48-51: the two tests that skip a loaded Report
skipped(ts, date_from, date_to) ==
    \/ (date_from # <<>> /\ ts < date_from[1])
    \/ (date_to # <<>> /\ ts > date_to[1])

RECURSIVE load_loop(_, _, _, _)

\* the loop of load_time_series_data, lines 45-52, over the files left
load_loop(result, files, date_from, date_to) ==
    IF files = <<>> THEN result
    ELSE LET suite == Head(files)
             kept == IF skipped(suite.timestamp, date_from, date_to)
                     THEN result
                     ELSE [t \in DOMAIN result \cup {suite.timestamp} |->
                             IF t = suite.timestamp THEN suite ELSE result[t]]
         IN load_loop(kept, Tail(files), date_from, date_to)

\* load_time_series_data, lines 41-53
load_time_series_data(files, date_from, date_to) ==
    load_loop(<<>>, files, date_from, date_to)

\* the Snapshot a stored file holds: one of three Reports, by the file's id,
\* with the Results of its own run
file_snapshot(f) ==
    LET kind == ((f.id - 1) % 3) + 1
        units == CASE kind = 1 -> <<"D", "A", "B">>
                   [] kind = 2 -> <<"D", "A">>
                   [] OTHER -> <<"C", "D">>
        ids == CASE kind = 1 -> <<1, 2>>
                 [] kind = 2 -> <<1>>
                 [] OTHER -> <<0, 1>>
    IN [ok |-> TRUE,
        id |-> f.id,
        timestamp |-> f.timestamp,
        metadata |-> [type |-> "data_quality"],
        tags |-> <<>>,
        units |-> units,
        results |-> [i \in 1..Len(units) |-> Result(units[i], ToString(f.id))],
        metrics_ids |-> ids]

\* cls._load(filepath), line 47: the Report restored from the file's Snapshot
_load(f) == _parse_snapshot(file_snapshot(f))

RECURSIVE report_items(_, _)

\* reports.items(): the timestamps in the order the dict got them, each with
\* the Report it holds at the end
report_items(reports, files) ==
    IF files = <<>> THEN <<>>
    ELSE LET rest == report_items(reports, Tail(files))
             t == Head(files).timestamp
         IN IF t \in DOMAIN reports
            THEN <<t>> \o SelectSeq(rest, LAMBDA x : x # t)
            ELSE rest

\* metric.get_result(): the Result the Context the metric is bound to holds
get_result(ctx, metric) == ctx[metric]

\* result[metric][timestamp] = value, on a defaultdict(dict)
put(result, metric, timestamp, value) ==
    LET old == IF metric \in DOMAIN result THEN result[metric] ELSE <<>>
        new == [t \in DOMAIN old \cup {timestamp} |->
                  IF t = timestamp THEN value ELSE old[t]]
    IN [m \in DOMAIN result \cup {metric} |->
          IF m = metric THEN new ELSE result[m]]

RECURSIVE first_level_loop(_, _, _, _)

\* lines 25-26: the first-level metrics of one report
first_level_loop(result, timestamp, report, ms) ==
    IF ms = <<>> THEN result
    ELSE first_level_loop(
            put(result, Head(ms), timestamp,
                get_result(report.metric_results, Head(ms))),
            timestamp, report, Tail(ms))

\* series_report going over every unit of the Suite
series_report_all_units(result, timestamp, report) ==
    first_level_loop(result, timestamp, report, report.suite_metrics)

\* lines 25-26 for one report of reports.items()
series_report(result, timestamp, report) ==
    first_level_loop(result, timestamp, report, report.first_level)

RECURSIVE series_all(_, _, _)

\* lines 23-27: load_metric_time_series without a metrics filter
series_all(result, reports, ts) ==
    IF ts = <<>> THEN result
    ELSE series_all(series_report(result, Head(ts), _load(reports[Head(ts)])),
                    reports, Tail(ts))

\* rebind that keeps the Context a metric was bound to first
rebind_once(bd, metric, report) ==
    IF metric \in DOMAIN bd THEN bd
    ELSE [m \in DOMAIN bd \cup {metric} |->
            IF m = metric THEN report.metric_results ELSE bd[m]]

\* line 31: metric.set_context(report._inner_suite.context)
rebind(bd, metric, report) ==
    [m \in DOMAIN bd \cup {metric} |->
        IF m = metric THEN report.metric_results ELSE bd[m]]

RECURSIVE reports_loop(_, _, _, _)

\* lines 29-32: the reports, for one requested metric
reports_loop(st, metric, reports, ts) ==
    IF ts = <<>> THEN st
    ELSE LET report == _load(reports[Head(ts)])
         IN IF metric \in Range(report.first_level)
            THEN LET bd == rebind(st.bound, metric, report)
                 IN reports_loop(
                        [result |-> put(st.result, metric, Head(ts),
                                        get_result(bd[metric], metric)),
                         bound |-> bd],
                        metric, reports, Tail(ts))
            ELSE reports_loop(st, metric, reports, Tail(ts))

RECURSIVE series_filtered(_, _, _, _)

\* lines 28-33: load_metric_time_series with a metrics filter
series_filtered(st, ms, reports, ts) ==
    IF ms = <<>> THEN st
    ELSE series_filtered(reports_loop(st, Head(ms), reports, ts),
                         Tail(ms), reports, ts)

\* the metrics argument: None, or a list of metrics
NoFilter == [given |-> FALSE, units |-> <<>>]
MetricFilters ==
    {NoFilter} \cup
    {[given |-> TRUE, units |-> us] :
        us \in {<<"A">>, <<"D">>, <<"A", "D">>, <<"B", "C">>}}

\* load_metric_time_series, lines 15-33
load_metric_time_series(files, date_from, date_to, filter) ==
    LET reports == load_time_series_data(files, date_from, date_to)
        ts == report_items(reports, files)
    IN IF ~filter.given
       THEN [reports |-> reports,
             result |-> series_all(<<>>, reports, ts),
             bound |-> <<>>]
       ELSE LET st == series_filtered([result |-> <<>>, bound |-> <<>>],
                                      filter.units, reports, ts)
            IN [reports |-> reports, result |-> st.result, bound |-> st.bound]

report_vars ==
    <<metrics, first_level, metadata, suite_metrics, metric_results,
      suite_state, pc, idx, arg, data, before, calls, run_no, last_error,
      computed, registered, snapshot, restored, header, bound, contexts, build>>

\* a storage path holding some Reports, no Report under construction
InitLoad ==
    /\ metrics = <<>>
    /\ first_level = <<>>
    /\ metadata = [type |-> "data_quality"]
    /\ suite_metrics = <<>>
    /\ metric_results = [u \in {} |-> NoResult]
    /\ suite_state = "UNINITIALIZED"
    /\ pc = "idle"
    /\ idx = 0
    /\ arg = NoData
    /\ data = NoData
    /\ before = [complete |-> FALSE, data |-> NoData, first_level |-> <<>>]
    /\ calls = 0
    /\ run_no = 0
    /\ last_error = "none"
    /\ computed = [u \in Elements |-> 0]
    /\ registered = <<>>
    /\ snapshot = NoSnapshot
    /\ restored = NoReport
    /\ header = [id |-> "r1", timestamp |-> 1, tags |-> <<>>]
    /\ bound = <<>>
    /\ contexts = <<>>
    /\ build = PlainBuild
    /\ store \in {s \in Stores : \A i \in 1..Len(s) : s[i].id = i}
    /\ query = [called |-> FALSE, date_from |-> <<>>, date_to |-> <<>>]
    /\ loaded = <<>>
    /\ series = NoCall
    /\ panel = NoCall
    /\ workspace = <<>>
    /\ response = NoCall

\* load_time_series_data(path, Report, date_from, date_to); a load leaves the
\* path as it is, so one load per behaviour reaches every result
LoadTimeSeriesData(date_from, date_to) ==
    /\ ~query.called
    /\ query' = [called |-> TRUE, date_from |-> date_from, date_to |-> date_to]
    /\ loaded' = load_time_series_data(store, date_from, date_to)
    /\ series' = NoCall
    /\ UNCHANGED <<report_vars, store, panel, workspace, response>>

\* load_metric_time_series(path, date_from, date_to, metrics); its first step
\* is the load_time_series_data call of line 21
LoadMetricTimeSeries(date_from, date_to, filter) ==
    LET out == load_metric_time_series(store, date_from, date_to, filter)
    IN /\ ~query.called
       /\ query' = [called |-> TRUE, date_from |-> date_from, date_to |-> date_to]
       /\ loaded' = out.reports
       /\ series' = [called |-> TRUE, filter |-> filter,
                     result |-> out.result, bound |-> out.bound]
       /\ UNCHANGED <<report_vars, store, panel, workspace, response>>

NextLoad ==
    \/ \E date_from \in OptionalDates, date_to \in OptionalDates :
          LoadTimeSeriesData(date_from, date_to)
    \/ \E date_from \in OptionalDates, date_to \in OptionalDates,
            filter \in MetricFilters :
          LoadMetricTimeSeries(date_from, date_to, filter)

SpecLoad == InitLoad /\ [][NextLoad]_vars

\* ---- restoring stored snapshots, well-formed or not ----

\* no Report under construction
BlankReport ==
    /\ metrics = <<>>
    /\ first_level = <<>>
    /\ metadata = [type |-> "data_quality"]
    /\ suite_metrics = <<>>
    /\ metric_results = [u \in {} |-> NoResult]
    /\ suite_state = "UNINITIALIZED"
    /\ pc = "idle"
    /\ idx = 0
    /\ arg = NoData
    /\ data = NoData
    /\ before = [complete |-> FALSE, data |-> NoData, first_level |-> <<>>]
    /\ calls = 0
    /\ run_no = 0
    /\ last_error = "none"
    /\ computed = [u \in Elements |-> 0]
    /\ registered = <<>>
    /\ restored = NoReport
    /\ header = [id |-> "r1", timestamp |-> 1, tags |-> <<>>]
    /\ bound = <<>>
    /\ contexts = <<>>

\* no storage path read
BlankLoader ==
    /\ store = <<>>
    /\ query = [called |-> FALSE, date_from |-> <<>>, date_to |-> <<>>]
    /\ loaded = <<>>
    /\ series = NoCall

\* the stored index lists: up to MaxIds indices, each in -MaxIndex..MaxIndex
StoredIds ==
    UNION {[1..n -> (0 - MaxIndex)..MaxIndex] : n \in 0..MaxIds}

\* the Snapshots a file can hold: a unit list with its Results, and any index list
StoredSnapshots ==
    {[ok |-> TRUE,
      id |-> "r1",
      timestamp |-> 1,
      metadata |-> [type |-> "data_quality"],
      tags |-> <<>>,
      units |-> units,
      results |-> [i \in 1..Len(units) |-> Result(units[i], "d1")],
      metrics_ids |-> ids] :
        units \in {<<"A">>, <<"D", "A">>}, ids \in StoredIds}

InitParse ==
    /\ build = PlainBuild
    /\ BlankReport
    /\ BlankLoader
    /\ snapshot \in StoredSnapshots
    /\ panel = NoCall
    /\ workspace = <<>>
    /\ response = NoCall

NextParse == ParseSnapshot

SpecParse == InitParse /\ [][NextParse]_vars

\* ---- dashboard panels over a project's snapshots ----

NoMetadata == [k \in {} |-> ""]

\* the snapshots a project can hold: Reports as create_report builds them
\* (metadata type, batch_size and dataset_id, with or without tags), a
\* TestSuite without metadata, and Reports of other metadata and tags
PanelSnapshots ==
    {[id |-> "s1", tags |-> <<>>,
      metadata |-> [type |-> "data_quality", batch_size |-> "daily",
                    dataset_id |-> "adult"]],
     [id |-> "s2", tags |-> <<"prod">>,
      metadata |-> [type |-> "data_quality", batch_size |-> "daily",
                    dataset_id |-> "adult"]],
     [id |-> "s3", tags |-> <<>>, metadata |-> NoMetadata],
     [id |-> "s4", tags |-> <<"eu", "prod">>,
      metadata |-> [type |-> "data_quality"]],
     [id |-> "s5", tags |-> <<"eu">>,
      metadata |-> [type |-> "classification", batch_size |-> "daily"]]}

\* ReportFilter(metadata_values=..., tag_values=...)
PanelFilters ==
    {[metadata_values |-> mv, tag_values |-> tv] :
        mv \in {NoMetadata,
                [type |-> "data_quality"],
                [batch_size |-> "daily"],
                [type |-> "data_quality", batch_size |-> "daily"]},
        tv \in {<<>>, <<"prod">>, <<"eu">>, <<"prod", "eu">>}}

\* the key/value pairs of a metadata mapping
pairs(md) == {<<k, md[k]>> : k \in DOMAIN md}

\* a filter that asks for any one of its tags
filter_any_tag(f, s) ==
    /\ pairs(f.metadata_values) \subseteq pairs(s.metadata)
    /\ \/ f.tag_values = <<>>
       \/ Range(f.tag_values) \cap Range(s.tags) # {}

\* the filter of a panel on one snapshot: its metadata is a superset of
\* metadata_values and its tags are a superset of tag_values
filter(f, s) ==
    /\ pairs(f.metadata_values) \subseteq pairs(s.metadata)
    /\ Range(f.tag_values) \subseteq Range(s.tags)

\* aggregate_panel, first step: the snapshots of the set the filter retains
filter_snapshots(snapshots, f) == {s \in snapshots : filter(f, s)}

InitPanel ==
    /\ build = PlainBuild
    /\ BlankReport
    /\ BlankLoader
    /\ snapshot = NoSnapshot
    /\ panel \in {[called |-> FALSE, snapshots |-> ss] : ss \in SUBSET PanelSnapshots}
    /\ workspace = <<>>
    /\ response = NoCall

\* aggregate_panel(snapshots, filter, value_spec) on the project's snapshots
AggregatePanel(f) ==
    /\ panel' = [called |-> TRUE, snapshots |-> panel.snapshots, filter |-> f,
                 kept |-> filter_snapshots(panel.snapshots, f)]
    /\ UNCHANGED <<report_vars, store, query, loaded, series, workspace, response>>

NextPanel == \E f \in PanelFilters : AggregatePanel(f)

SpecPanel == InitPanel /\ [][NextPanel]_vars

\* ---- the HTTP API over a workspace of projects ----

NOT_FOUND == 404
BAD_REQUEST == 400
OK == 200

ProjectIds == {"p1", "p2"}
ReportIds == {"r1", "r2"}
GraphIds == {"g1", "g2"}
Formats == {"html", "json", "csv"}

\* ids a request can carry: those of projects that may exist, and one that never does
RequestProjectIds == ProjectIds \cup {"p9"}

\* the ProjectBase fields update_project_info writes
Infos ==
    {[name |-> "a", description |-> "x", date_from |-> <<>>, date_to |-> <<>>],
     [name |-> "b", description |-> "y", date_from |-> <<1>>, date_to |-> <<2>>]}

\* report.additional_graphs of a stored snapshot
additional_graphs(report_id) == IF report_id = "r1" THEN {"g1"} ELSE {}

\* workspace.get_project(project_id): the project, or None
get_project(ws, project_id) ==
    IF project_id \in DOMAIN ws
    THEN [found |-> TRUE, project |-> ws[project_id]]
    ELSE [found |-> FALSE]

\* project.get_snapshot(report_id): the snapshot, or None
get_snapshot(project, report_id) ==
    IF report_id \in project.snapshots
    THEN [found |-> TRUE, graphs |-> additional_graphs(report_id)]
    ELSE [found |-> FALSE]

\* workspace.add_project(project): the project is stored under its id; where
\* the Workspace keeps what is stored under a known id (keeps), the snapshots
\* of the project it replaces are those of the new one
add_project(ws, project_id, info, keeps) ==
    [status |-> OK,
     workspace |-> [p \in DOMAIN ws \cup {project_id} |->
                      IF p = project_id
                      THEN [info |-> info,
                            snapshots |-> (IF keeps /\ p \in DOMAIN ws
                                           THEN ws[p].snapshots ELSE {})]
                      ELSE ws[p]]]

\* an endpoint that only reads the project: 404 for an unknown project
read_project(ws, project_id) ==
    IF ~get_project(ws, project_id).found
    THEN [status |-> NOT_FOUND, workspace |-> ws]
    ELSE [status |-> OK, workspace |-> ws]

list_reports(ws, project_id) == read_project(ws, project_id)

get_project_info(ws, project_id) == read_project(ws, project_id)

list_test_suites(ws, project_id) == read_project(ws, project_id)

list_project_dashboard_panels(ws, project_id) == read_project(ws, project_id)

project_dashboard(ws, project_id) == read_project(ws, project_id)

update_project_info(ws, project_id, info) ==
    IF ~get_project(ws, project_id).found
    THEN [status |-> NOT_FOUND, workspace |-> ws]
    ELSE [status |-> OK,
          workspace |-> [ws EXCEPT ![project_id].info = info]]

get_report_graph_data(ws, project_id, report_id, graph_id) ==
    LET project == get_project(ws, project_id)
    IN IF ~project.found
       THEN [status |-> NOT_FOUND, workspace |-> ws]
       ELSE LET report == get_snapshot(project.project, report_id)
            IN IF ~report.found
               THEN [status |-> NOT_FOUND, workspace |-> ws]
               ELSE IF graph_id \notin report.graphs
                    THEN [status |-> NOT_FOUND, workspace |-> ws]
                    ELSE [status |-> OK, workspace |-> ws]

get_report_download(ws, project_id, report_id, report_format) ==
    LET project == get_project(ws, project_id)
    IN IF ~project.found
       THEN [status |-> NOT_FOUND, workspace |-> ws]
       ELSE IF ~get_snapshot(project.project, report_id).found
            THEN [status |-> NOT_FOUND, workspace |-> ws]
            ELSE IF report_format \in {"html", "json"}
                 THEN [status |-> OK, workspace |-> ws]
                 ELSE [status |-> BAD_REQUEST, workspace |-> ws]

get_report_data(ws, project_id, report_id) ==
    LET project == get_project(ws, project_id)
    IN IF ~project.found
       THEN [status |-> NOT_FOUND, workspace |-> ws]
       ELSE IF ~get_snapshot(project.project, report_id).found
            THEN [status |-> NOT_FOUND, workspace |-> ws]
            ELSE [status |-> OK, workspace |-> ws]

\* add_snapshot storing under the project id without looking the project up
add_snapshot_unchecked(ws, project_id, report_id) ==
    [status |-> OK,
     workspace |-> [p \in DOMAIN ws \cup {project_id} |->
                      IF p = project_id
                      THEN [info |-> CHOOSE i \in Infos : i.name = "a",
                            snapshots |-> (IF p \in DOMAIN ws
                                           THEN ws[p].snapshots ELSE {})
                                          \cup {report_id}]
                      ELSE ws[p]]]

add_snapshot(ws, project_id, report_id) ==
    IF ~get_project(ws, project_id).found
    THEN [status |-> NOT_FOUND, workspace |-> ws]
    ELSE [status |-> OK,
          workspace |-> [ws EXCEPT ![project_id].snapshots = @ \cup {report_id}]]

InitApi ==
    /\ build \in {b \in Builds : ~b.reset_in_place}
    /\ BlankReport
    /\ BlankLoader
    /\ snapshot = NoSnapshot
    /\ panel = NoCall
    /\ workspace = <<>>
    /\ response = NoCall

\* one request answered: the answer's status, and the workspace it leaves
Answered(endpoint, project_id, report_id, graph_id, out) ==
    /\ response' = [called |-> TRUE, endpoint |-> endpoint,
                    project_id |-> project_id, report_id |-> report_id,
                    graph_id |-> graph_id, status |-> out.status]
    /\ workspace' = out.workspace
    /\ UNCHANGED <<report_vars, store, query, loaded, series, panel>>

AddProject(project_id, info) ==
    Answered("add_project", project_id, "-", "-",
             add_project(workspace, project_id, info, build.add_project_keeps))

ListReports(project_id) ==
    Answered("list_reports", project_id, "-", "-",
             list_reports(workspace, project_id))

GetProjectInfo(project_id) ==
    Answered("get_project_info", project_id, "-", "-",
             get_project_info(workspace, project_id))

UpdateProjectInfo(project_id, info) ==
    Answered("update_project_info", project_id, "-", "-",
             update_project_info(workspace, project_id, info))

ListTestSuites(project_id) ==
    Answered("list_test_suites", project_id, "-", "-",
             list_test_suites(workspace, project_id))

GetReportGraphData(project_id, report_id, graph_id) ==
    Answered("get_report_graph_data", project_id, report_id, graph_id,
             get_report_graph_data(workspace, project_id, report_id, graph_id))

GetReportDownload(project_id, report_id, report_format) ==
    Answered("get_report_download", project_id, report_id, "-",
             get_report_download(workspace, project_id, report_id, report_format))

GetReportData(project_id, report_id) ==
    Answered("get_report_data", project_id, report_id, "-",
             get_report_data(workspace, project_id, report_id))

ListProjectDashboardPanels(project_id) ==
    Answered("list_project_dashboard_panels", project_id, "-", "-",
             list_project_dashboard_panels(workspace, project_id))

ProjectDashboard(project_id) ==
    Answered("project_dashboard", project_id, "-", "-",
             project_dashboard(workspace, project_id))

AddSnapshot(project_id, report_id) ==
    Answered("add_snapshot", project_id, report_id, "-",
             add_snapshot(workspace, project_id, report_id))

NextApi ==
    \/ \E p \in ProjectIds, i \in Infos : AddProject(p, i)
    \/ \E p \in RequestProjectIds : ListReports(p)
    \/ \E p \in RequestProjectIds : GetProjectInfo(p)
    \/ \E p \in RequestProjectIds, i \in Infos : UpdateProjectInfo(p, i)
    \/ \E p \in RequestProjectIds : ListTestSuites(p)
    \/ \E p \in RequestProjectIds, r \in ReportIds, g \in GraphIds :
          GetReportGraphData(p, r, g)
    \/ \E p \in RequestProjectIds, r \in ReportIds, f \in Formats :
          GetReportDownload(p, r, f)
    \/ \E p \in RequestProjectIds, r \in ReportIds : GetReportData(p, r)
    \/ \E p \in RequestProjectIds : ListProjectDashboardPanels(p)
    \/ \E p \in RequestProjectIds : ProjectDashboard(p)
    \/ \E p \in RequestProjectIds, r \in ReportIds : AddSnapshot(p, r)

SpecApi == InitApi /\ [][NextApi]_vars

(* ---------------------------------------------------------------- claims *)

Count(seq, x) == Cardinality({i \in 1..Len(seq) : seq[i] = x})

\* the units one configured item stands for: a bare unit itself, a generator's
\* units, a preset's elements with each nested generator replaced by its units
ItemExpansion(item, cols) ==
    CASE item.kind = "metric" -> <<item.name>>
      [] item.kind = "generator" -> generate(item.name, cols)
      [] item.kind = "preset" ->
            LET em == generate_metrics(item.name, cols)
                part(i) == IF em[i].kind = "generator"
                           THEN generate(em[i].name, cols)
                           ELSE <<em[i].name>>
                cat[i \in 0..Len(em)] == IF i = 0 THEN <<>> ELSE cat[i - 1] \o part(i)
            IN cat[Len(em)]
      [] OTHER -> <<>>

\* the concatenation of the items' expansions, in list order
Expansion(items, cols) ==
    LET cat[i \in 0..Len(items)] ==
            IF i = 0 THEN <<>> ELSE cat[i - 1] \o ItemExpansion(items[i], cols)
    IN cat[Len(items)]

\* C1: in every run each unit is computed at most once and, when the run
\* returns, every unit of the Suite (a dependency shared by two first-level
\* units included) has been computed exactly once; a Context entry, once
\* populated, keeps its value for the rest of the run.
C1_ComputedOnce ==
    /\ [](\A u \in Elements : computed[u] <= 1)
    /\ [](pc = "done" => \A u \in Range(suite_metrics) : computed[u] = 1)
    /\ [][run_no' = run_no =>
            \A u \in DOMAIN metric_results :
                /\ u \in DOMAIN metric_results'
                /\ metric_results'[u] = metric_results[u]]_vars

\* two first-level units sharing the dependency D, which is not first-level
C1_Witness ==
    /\ pc = "done"
    /\ {"A", "B"} \subseteq Range(first_level)
    /\ "D" \notin Range(first_level)
    /\ "D" \in Range(suite_metrics)
    /\ computed["D"] = 1
    /\ metric_results["D"] = Result("D", data)

\* C2: after the first run of a fresh Report the first-level list and the
\* sequence of registrations with the Suite are both the concatenation of the
\* items' expansions in list order; [UnitA, PresetP] with PresetP emitting
\* [UnitB, UnitC] gives [UnitA, UnitB, UnitC].
C2_ExpansionOrder ==
    (pc = "done" /\ run_no = 1) =>
        /\ first_level = Expansion(metrics, process_columns(data))
        /\ registered = first_level
        /\ (metrics = <<Unit("A"), Preset("PresetBC")>> =>
                first_level = <<"A", "B", "C">>)

\* a bare unit followed by a preset holding a nested generator
C2_Witness ==
    /\ pc = "done"
    /\ run_no = 1
    /\ metrics = <<Unit("A"), Preset("PresetNested")>>
    /\ data = "d1"
    /\ first_level = <<"A", "D", "A", "B">>
    /\ registered = first_level

\* C3: for every completed Report, restoring its captured snapshot gives the
\* same first-level sequence, the same Results, metadata, tags, timestamp and
\* id, and the same as_dict().
C3_RoundTrip ==
    pc = "done" =>
        /\ _get_snapshot.ok
        /\ LET r == _parse_snapshot(_get_snapshot)
           IN /\ r.first_level = first_level
              /\ \A u \in Range(first_level) :
                    /\ u \in DOMAIN r.metric_results
                    /\ u \in DOMAIN metric_results
                    /\ r.metric_results[u] = metric_results[u]
              /\ r.metadata = metadata
              /\ r.tags = header.tags
              /\ r.timestamp = header.timestamp
              /\ r.id = header.id
              /\ as_dict(r.first_level,
                         [k \in 1..Len(r.first_level) |-> r.metric_results])
                    = as_dict(first_level, bound_contexts)

\* C4: in every snapshot _get_snapshot produces, the index list is as long as
\* the first-level list, every index is within the unit list, and the k-th
\* index points at the k-th first-level unit.
C4_IndicesValid ==
    (Idle /\ _get_snapshot.ok) =>
        LET s == _get_snapshot
        IN /\ Len(s.metrics_ids) = Len(first_level)
           /\ \A k \in 1..Len(s.metrics_ids) :
                /\ 0 <= s.metrics_ids[k]
                /\ s.metrics_ids[k] < Len(s.units)
                /\ s.units[s.metrics_ids[k] + 1] = first_level[k]

\* a captured snapshot of the present Report with three indices, the first
\* two not in the order of the unit list
C4_Witness ==
    /\ pc = "done"
    /\ snapshot.ok
    /\ snapshot = _get_snapshot
    /\ Len(snapshot.metrics_ids) = 3
    /\ snapshot.metrics_ids[1] > snapshot.metrics_ids[2]
    /\ Range(first_level) \subseteq Metrics

\* C5: the snapshot captured from a completed Report holds every unit once,
\* and a first-level unit has as many indices pointing at its entry as the
\* configuration has paths that expose it: two for two paths, one for one.
C5_OneEntryPerUnit ==
    (pc = "done" /\ _get_snapshot.ok) =>
        LET s == _get_snapshot
        IN /\ \A i, j \in 1..Len(s.units) : s.units[i] = s.units[j] => i = j
           /\ \A u \in Range(first_level) :
                Count(s.metrics_ids, index(s.units, u))
                    = Count(Expansion(metrics, process_columns(data)), u)

\* C6: a second run with the same inputs leaves the first-level sequence as
\* the first run left it.
C6_RerunSameOrder ==
    (pc = "done" /\ before.complete /\ before.data = data) =>
        first_level = before.first_level

\* C7: run() with current_data None raises and changes nothing of the Report:
\* no reset, no registration, no metadata change, no computation.
C7_NoDataNoRun ==
    [][(calls' # calls /\ arg' = NoData) =>
            /\ last_error' = "ValueError"
            /\ UNCHANGED <<first_level, metadata, suite_metrics, metric_results,
                           suite_state, computed, registered, pc, run_no>>]_vars

\* run() without data called on a Report that has completed a run
C7_Witness ==
    /\ arg = NoData
    /\ calls = 2
    /\ last_error = "ValueError"
    /\ pc = "done"
    /\ suite_state = "COMPLETE"
    /\ Len(suite_metrics) > 0

\* C8: when a generator or preset produces a non-unit, the failed run leaves
\* no unit of this expansion in the Suite or the first-level list and has
\* computed nothing.
C8_NoPartialRegistration ==
    (pc = "failed" /\ metrics[idx].kind \in {"generator", "preset"}) =>
        /\ first_level = before.first_level
        /\ suite_metrics = <<>>
        /\ \A u \in Elements : computed[u] = 0

\* C9: after a run that returns without error every first-level element and
\* every element registered with the Suite is a Metric.
C9_OnlyMetrics ==
    pc = "done" =>
        \A e \in Range(first_level) \cup Range(suite_metrics) : IsMetric(e)

InRange(ts) ==
    /\ (query.date_from = <<>> \/ query.date_from[1] <= ts)
    /\ (query.date_to = <<>> \/ ts <= query.date_to[1])

\* C10: the load returns every stored snapshot whose timestamp is within the
\* bounds, under its own timestamp, and no snapshot outside of them.
C10_AllInRange ==
    query.called =>
    /\ \A i \in 1..Len(store) :
          InRange(store[i].timestamp) =>
              /\ store[i].timestamp \in DOMAIN loaded
              /\ loaded[store[i].timestamp] = store[i]
    /\ \A t \in DOMAIN loaded : loaded[t].timestamp = t /\ InRange(t)

\* C10 as amended: the keys of the result are exactly the timestamps within
\* the bounds at which a snapshot is stored, and each key holds the stored
\* snapshot listed last among those with that timestamp; equal bounds leave
\* that one timestamp only, and date_from > date_to leaves nothing.
C10_LastPerTimestamp ==
    query.called =>
    /\ DOMAIN loaded
          = {store[i].timestamp : i \in {j \in 1..Len(store) : InRange(store[j].timestamp)}}
    /\ \A t \in DOMAIN loaded :
          \E i \in 1..Len(store) :
              /\ loaded[t] = store[i]
              /\ store[i].timestamp = t
              /\ \A j \in (i + 1)..Len(store) : store[j].timestamp # t
    /\ (query.date_from # <<>> /\ query.date_from = query.date_to) =>
          DOMAIN loaded \subseteq {query.date_from[1]}
    /\ (query.date_from # <<>> /\ query.date_to # <<>>
            /\ query.date_from[1] > query.date_to[1]) => loaded = <<>>

\* equal bounds, with two stored snapshots at that timestamp and one outside
C10_Witness ==
    /\ query.called
    /\ query.date_from = <<2>>
    /\ query.date_to = <<2>>
    /\ Len(store) = 3
    /\ store[1].timestamp = 2
    /\ store[2].timestamp = 3
    /\ store[3].timestamp = 2
    /\ DOMAIN loaded = {2}
    /\ loaded[2] = store[3]

\* the first-level units a stored Snapshot names, and the Result it records
\* for a unit
FirstLevelOf(f) ==
    LET s == file_snapshot(f)
    IN {s.units[s.metrics_ids[k] + 1] : k \in 1..Len(s.metrics_ids)}

Recorded(f, u) ==
    LET s == file_snapshot(f)
    IN s.results[CHOOSE i \in 1..Len(s.units) : s.units[i] = u]

HasEntry(u, t) ==
    /\ u \in DOMAIN series.result
    /\ t \in DOMAIN series.result[u]

\* C11: without a metrics filter, load_metric_time_series returns, for every
\* loaded snapshot and every first-level unit of it, the Result recorded in
\* that snapshot under that unit and the snapshot's timestamp, and nothing else.
C11_SeriesAll ==
    (series.called /\ ~series.filter.given) =>
        /\ \A t \in DOMAIN loaded : \A u \in FirstLevelOf(loaded[t]) :
              /\ HasEntry(u, t)
              /\ series.result[u][t] = Recorded(loaded[t], u)
        /\ \A u \in DOMAIN series.result : \A t \in DOMAIN series.result[u] :
              /\ t \in DOMAIN loaded
              /\ u \in FirstLevelOf(loaded[t])

\* an unfiltered load of two snapshots that share a first-level unit with
\* different Results, one of them holding a unit that is not first-level
C11_Witness ==
    /\ series.called
    /\ ~series.filter.given
    /\ \E u \in DOMAIN series.result : \E t1, t2 \in DOMAIN series.result[u] :
          series.result[u][t1] # series.result[u][t2]
    /\ \E t \in DOMAIN loaded :
          \E u \in Range(file_snapshot(loaded[t]).units) : ~HasEntry(u, t)

\* C12 as stated: with a metrics filter, a loaded snapshot contributes an entry
\* for a requested unit exactly when its unit list contains that unit.
C12_UnitListFilter ==
    (series.called /\ series.filter.given) =>
        \A u \in Range(series.filter.units) : \A t \in DOMAIN loaded :
            HasEntry(u, t) <=> u \in Range(file_snapshot(loaded[t]).units)

\* C12: with a metrics filter, a loaded snapshot contributes an entry for a
\* requested unit exactly when its first-level list contains that unit; the
\* entry is the Result that snapshot records for the unit (the requested unit
\* is bound to that snapshot's Context when it is read), and only requested
\* units have entries.
C12_FirstLevelFilter ==
    (series.called /\ series.filter.given) =>
        /\ DOMAIN series.result \subseteq Range(series.filter.units)
        /\ \A u \in Range(series.filter.units) : \A t \in DOMAIN loaded :
              /\ HasEntry(u, t) <=> u \in FirstLevelOf(loaded[t])
              /\ HasEntry(u, t) => series.result[u][t] = Recorded(loaded[t], u)
        /\ \A u \in DOMAIN series.result :
              DOMAIN series.result[u] \subseteq DOMAIN loaded

\* a filtered load where a requested unit is read from two snapshots with
\* different Results, and a requested unit is in a snapshot's unit list
\* without being first-level there
C12_Witness ==
    /\ series.called
    /\ series.filter.given
    /\ \E u \in Range(series.filter.units) : \E t1, t2 \in DOMAIN loaded :
          /\ HasEntry(u, t1) /\ HasEntry(u, t2)
          /\ series.result[u][t1] # series.result[u][t2]
    /\ \E u \in Range(series.filter.units) : \E t \in DOMAIN loaded :
          /\ u \in Range(file_snapshot(loaded[t]).units)
          /\ u \notin FirstLevelOf(loaded[t])

\* an index list with an index outside 0..len(units)-1
Malformed(s) ==
    \E k \in 1..Len(s.metrics_ids) :
        s.metrics_ids[k] < 0 \/ s.metrics_ids[k] >= Len(s.units)

\* C13: restoring a snapshot whose first-level index list holds an index that
\* is negative or not below the length of its unit list returns no Report.
C13_MalformedFails ==
    Malformed(snapshot) => ~restored.ok

\* a snapshot has every key/value pair and every tag the filter asks for
Satisfies(s, f) ==
    /\ \A k \in DOMAIN f.metadata_values :
          k \in DOMAIN s.metadata /\ s.metadata[k] = f.metadata_values[k]
    /\ \A i \in 1..Len(f.tag_values) :
          \E j \in 1..Len(s.tags) : s.tags[j] = f.tag_values[i]

\* f2 asks for everything f1 asks for
Tighter(f2, f1) ==
    /\ \A k \in DOMAIN f1.metadata_values :
          k \in DOMAIN f2.metadata_values
          /\ f2.metadata_values[k] = f1.metadata_values[k]
    /\ Range(f1.tag_values) \subseteq Range(f2.tag_values)

\* C14: aggregate_panel retains only snapshots of the set whose metadata has
\* every key/value pair of the filter and whose tags hold every tag of the
\* filter; a tighter filter never retains more snapshots; the empty filter
\* retains all of them.
C14_PanelFilter ==
    panel.called =>
        /\ panel.kept \subseteq panel.snapshots
        /\ \A s \in panel.kept : Satisfies(s, panel.filter)
        /\ \A f2 \in PanelFilters :
              Tighter(f2, panel.filter) =>
                  Cardinality(filter_snapshots(panel.snapshots, f2))
                      <= Cardinality(panel.kept)
        /\ (panel.filter.metadata_values = NoMetadata /\ panel.filter.tag_values = <<>>)
              => panel.kept = panel.snapshots

\* a filter with a metadata constraint and a tag that retains some snapshots
\* and drops others, and a tighter filter that retains fewer
C14_Witness ==
    /\ panel.called
    /\ panel.filter.metadata_values # NoMetadata
    /\ panel.filter.tag_values # <<>>
    /\ panel.kept # {}
    /\ panel.kept # panel.snapshots
    /\ \E f2 \in PanelFilters :
          /\ Tighter(f2, panel.filter)
          /\ Cardinality(filter_snapshots(panel.snapshots, f2))
                < Cardinality(panel.kept)

\* the provenance list of a kind, empty when the key is absent
Provenance(md, key) == IF key \in DOMAIN md THEN md[key] ELSE <<>>

\* the class names of the configured items of a kind, in configured order
NamesOf(kind) ==
    LET its == SelectSeq(metrics, LAMBDA it : it.kind = kind)
    IN [i \in 1..Len(its) |-> its[i].name]

IsPrefix(s, t) == Len(s) <= Len(t) /\ SubSeq(t, 1, Len(s)) = s

ProvenanceKeys == {METRIC_PRESETS, METRIC_GENERATORS}

\* the metadata keys written by the setters
SetterKeys == {"batch_size", "model_id", "reference_id", "dataset_id"}

\* C15: after the successful first run of a Report the preset list and the
\* generator list of its metadata hold the class names of the configured
\* presets and top-level generators, one per occurrence in configured order,
\* and a kind without configured item has no key; no step removes or
\* reorders a provenance entry or removes a metadata key, and a step that
\* gives another metadata key a new value is never a step of run(): it is a
\* setter call between runs, on the key of a setter, with the value given.
C15_ProvenanceAppendOnly ==
    /\ []((pc = "done" /\ run_no = 1) =>
            /\ Provenance(metadata, METRIC_PRESETS) = NamesOf("preset")
            /\ Provenance(metadata, METRIC_GENERATORS) = NamesOf("generator")
            /\ METRIC_PRESETS \in DOMAIN metadata <=> NamesOf("preset") # <<>>
            /\ METRIC_GENERATORS \in DOMAIN metadata <=> NamesOf("generator") # <<>>)
    /\ [][/\ DOMAIN metadata \subseteq DOMAIN metadata'
          /\ \A k \in DOMAIN metadata \cap ProvenanceKeys :
                IsPrefix(metadata[k], metadata'[k])
          /\ \A k \in DOMAIN metadata' \ ProvenanceKeys :
                \/ k \in DOMAIN metadata /\ metadata'[k] = metadata[k]
                \/ /\ Idle
                   /\ pc' = pc
                   /\ run_no' = run_no
                   /\ calls' # calls
                   /\ k \in SetterKeys
                   /\ metadata'[k] = arg']_vars

\* a successful first run of a Report configured with two presets and
\* constructed with a batch_size, followed by set_batch_size("weekly")
C15_Witness ==
    /\ pc = "done"
    /\ run_no = 1
    /\ Len(Provenance(metadata, METRIC_PRESETS)) = 2
    /\ header.batch_size = "daily"
    /\ arg = "weekly"
    /\ metadata["batch_size"] = "weekly"

\* every unit of the expansion of the configured list is in the Suite
AllRegistered ==
    Range(Expansion(metrics, process_columns(data))) \subseteq Range(suite_metrics)

\* C16: within a run, units are registered only after reset and verify and
\* before anything is computed; the additional-features pass comes after the
\* last registration, with every unit of the expansion registered, and before
\* the first computation; a unit is computed only after that pass; the Suite
\* goes from VERIFIED to RUNNING to COMPLETE, and is COMPLETE only when every
\* registered unit has a Result.
C16_StepOrder ==
    /\ [][(registered' # registered /\ run_no' = run_no) =>
            /\ pc = "expand"
            /\ suite_state = "VERIFIED"
            /\ DOMAIN metric_results = {}]_vars
    /\ [][(pc' = "calculate" /\ pc # "calculate") =>
            /\ pc = "expand"
            /\ suite_state = "VERIFIED"
            /\ suite_state' = "RUNNING"
            /\ idx > Len(metrics)
            /\ AllRegistered
            /\ registered' = registered
            /\ DOMAIN metric_results = {}
            /\ metric_results' = metric_results]_vars
    /\ [][(metric_results' # metric_results /\ run_no' = run_no) =>
            /\ pc = "calculate"
            /\ suite_state = "RUNNING"
            /\ AllRegistered
            /\ registered' = registered]_vars
    /\ [][(suite_state' = "COMPLETE" /\ suite_state # "COMPLETE") =>
            suite_state = "RUNNING"]_vars
    /\ [](suite_state = "COMPLETE" =>
            \A u \in Range(suite_metrics) : u \in DOMAIN metric_results)

\* a run that returned after registering and computing three units or more
C16_Witness ==
    /\ pc = "done"
    /\ suite_state = "COMPLETE"
    /\ Len(registered) >= 3
    /\ \A u \in Range(registered) : u \in DOMAIN metric_results

ProjectEndpoints ==
    {"list_reports", "get_project_info", "update_project_info",
     "list_test_suites", "get_report_graph_data", "get_report_download",
     "get_report_data", "list_project_dashboard_panels", "project_dashboard",
     "add_snapshot"}

ReportEndpoints ==
    {"get_report_graph_data", "get_report_download", "get_report_data"}

\* what a request names that the workspace, as it is when the request
\* arrives, does not hold
UnknownProject(r) == r.project_id \notin DOMAIN workspace

UnknownReport(r) ==
    /\ r.endpoint \in ReportEndpoints
    /\ ~UnknownProject(r)
    /\ r.report_id \notin workspace[r.project_id].snapshots

UnknownGraph(r) ==
    /\ r.endpoint = "get_report_graph_data"
    /\ ~UnknownProject(r)
    /\ ~UnknownReport(r)
    /\ r.graph_id \notin additional_graphs(r.report_id)

\* C17: every endpoint addressed by a project id answers 404 when the project
\* id is unknown, the report endpoints also when the report id is unknown and
\* the graph endpoint also when the graph id is unknown; they answer 404 in
\* no other case, and an answer of 404 leaves the workspace as it was.
C17_NotFound ==
    [][response'.endpoint \in ProjectEndpoints =>
          /\ response'.status = NOT_FOUND <=>
                \/ UnknownProject(response')
                \/ UnknownReport(response')
                \/ UnknownGraph(response')
          /\ response'.status = NOT_FOUND => workspace' = workspace]_vars

\* update_project_info for an unknown project id, answered 404, in a
\* workspace that holds a project with a snapshot
C17_Witness ==
    /\ response.called
    /\ response.endpoint = "update_project_info"
    /\ response.status = NOT_FOUND
    /\ response.project_id \notin DOMAIN workspace
    /\ \E p \in DOMAIN workspace : workspace[p].snapshots # {}

====
